---- MODULE Spec2Model ----
(***************************************************************************)
(* The resumable retrieval engine of discord_retriever: the fetch loop of  *)
(* DiscordMessageFetcher (fetcher.py) with its checkpoint file, page       *)
(* files, CircuitBreaker and ProgressTracker (models.py).                  *)
(*                                                                         *)
(* One fetcher process works on one checkpoint file and one save           *)
(* directory. The page source, the operator (interrupts), the machine      *)
(* (crashes, write errors) and the clock are the environment.              *)
(***************************************************************************)
EXTENDS Integers, Sequences, FiniteSets, TLC

\* ------------------------------------------------------------ bounds
NumMsgs == 4        \* messages held by the channel, ids 1..NumMsgs (larger = newer)
PageSize == 2       \* most items the source returns per call
MaxRetries == 1     \* max_retries given to the fetcher
MaxRuns == 2        \* fetch_all invocations in one behaviour
MaxFaults == 1      \* interrupts, crashes and write errors in one behaviour
MaxThreshold == 3   \* largest max_failures of a breaker used on its own
MaxProbes == 2      \* failures recorded beyond max_failures
MaxCount == 2       \* largest page count / item count of a checkpoint saved on its own
MaxTotal == 3       \* largest total_items of a tracker used on its own
MaxUpdate == 2      \* largest count given to update; processed_items <= MaxTotal + MaxUpdate
MaxPage == 3        \* items of a page filtered on its own
MaxTime == 3        \* timestamps and date bounds 1..MaxTime of a page filtered on its own
MaxAttempts == 3    \* largest max_retries of the jobs run to study the retries
MaxStuckPages == 3  \* pages taken from a source that returns the same page for ever

\* ------------------------------------------------------------ program constants
Limit == 100          \* "limit" argument of every source call
ResetTimeout == 60    \* CircuitBreaker.reset_timeout, seconds
StallTimeout == 300   \* ProgressTracker(stall_timeout=300), seconds
RateLimitDelay == 1   \* rate_limit_delay: float = 1.0, seconds
None == 0             \* Python None for a cursor / date bound (ids and times are >= 1)
MissingTs == 0        \* a message without "timestamp" (msg.get("timestamp", "") = "")
BadTs == -1           \* a timestamp datetime.fromisoformat() rejects

Job == "A"            \* channel_id of the fetcher under study
OtherJob == "B"       \* another channel that may have used the same checkpoint file

Min(a, b) == IF a < b THEN a ELSE b

\* Seconds elapsed, kept exactly up to cap and as cap + 1 ("more than cap") beyond:
\* the code only ever compares an elapsed time with its timeout.
Elapsed(age, d, cap) == IF age + d > cap THEN cap + 1 ELSE age + d

\* The durations of the blocking operations (source call, sleeps, idle time).
Durations == {ResetTimeout, StallTimeout + 1}

VARIABLES
    \* ---- disk
    ckptFile,          \* the checkpoint file
    pageFiles,         \* save_directory: batch number -> file
    \* ---- page source and configuration of the job
    timestamps,        \* id -> timestamp of the message
    start_date, end_date,
    max_retries,       \* max_retries given to the fetcher
    \* ---- the fetcher object (memory of the process)
    pc,
    oldest_message_id, batch_count, total_messages,
    cb,                \* circuit_breaker: failures, is_open, since_failure
    progress,          \* ProgressTracker: processed_items, since_update
    retry_count,
    slept,             \* wait times given to time.sleep by the current page fetch
    messages,          \* the page returned by the source, then the filtered page
    outcome,           \* how the current fetch_all ends: exit, exc, retval
    \* ---- history (read by the properties only)
    start,             \* fetch_all entry: cursor, counts, the cursor on disk, ...
    lastArgs,          \* arguments of the last source call
    written,           \* this fetch_all: non-empty pages got, page files completed,
                       \* cursors the source answered, whether one was asked twice,
                       \* page fetches begun
    prevCkpt,          \* the complete checkpoint the file held before the current one
    fetched,           \* cursors of the non-empty pages the source has returned
    hist,              \* runs, interrupts, crashes, ... so far
    since_page,        \* time since the fetcher last completed a page file, or was built
    \* ---- the classes of models.py used on their own (idle in Spec)
    calls,             \* CircuitBreaker: the last method called on cb, its result, ...
    store              \* CheckpointData: the object saved, what load returned

disk == <<ckptFile, pageFiles>>
config == <<timestamps, start_date, end_date, max_retries>>
memory == <<oldest_message_id, batch_count, total_messages, cb, progress,
            retry_count, slept, messages, outcome>>
history == <<start, lastArgs, written, prevCkpt, fetched, hist, since_page>>
unit == <<calls, store>>
vars == <<disk, config, pc, memory, history, unit>>

\* ------------------------------------------------------------ checkpoint file
NoFile == [kind |-> "absent", channel_id |-> "", oldest_message_id |-> None,
           batch_count |-> 0, total_messages |-> 0]
\* A file cut short while being written: open(file, 'w') has truncated it and
\* json.dump() has not finished; every proper prefix of a JSON object is invalid.
TornFile == [kind |-> "torn", channel_id |-> "", oldest_message_id |-> None,
             batch_count |-> 0, total_messages |-> 0]
CheckpointData(ch, oldest, batches, total) ==
    [kind |-> "ok", channel_id |-> ch, oldest_message_id |-> oldest,
     batch_count |-> batches, total_messages |-> total]

\* Valid JSON that is no checkpoint: a list, a count that int() rejects, a
\* last_updated that fromisoformat rejects.
MalformedFile == [kind |-> "malformed", channel_id |-> "", oldest_message_id |-> None,
                  batch_count |-> 0, total_messages |-> 0]

\* CheckpointData.load: None for a missing file and for invalid JSON.
Load(file) == IF file.kind = "ok" THEN file ELSE NoFile

\* CheckpointData.load catches FileNotFoundError, JSONDecodeError and KeyError;
\* the AttributeError, TypeError or ValueError of a malformed file leaves it
\* and leaves the constructor.
LoadRaisesOnMismatch(file) ==
    \/ file.kind = "malformed"
    \/ file.kind = "ok" /\ file.channel_id # Job

LoadRaises(file) == file.kind = "malformed"

\* _load_checkpoint: what the fetcher starts from.
LoadCheckpointNoBatch(file) ==
    LET c == Load(file) IN
    IF c.kind = "ok" /\ c.channel_id = Job
    THEN [oldest |-> c.oldest_message_id, batches |-> 0, total |-> c.total_messages]
    ELSE [oldest |-> None, batches |-> 0, total |-> 0]

LoadCheckpointNoCursor(file) ==
    LET c == Load(file) IN
    IF c.kind = "ok" /\ c.channel_id = Job
    THEN [oldest |-> None, batches |-> c.batch_count, total |-> c.total_messages]
    ELSE [oldest |-> None, batches |-> 0, total |-> 0]

LoadCheckpointIgnoringJob(file) ==
    LET c == Load(file) IN
    IF c.kind = "ok"
    THEN [oldest |-> c.oldest_message_id, batches |-> c.batch_count,
          total |-> c.total_messages]
    ELSE [oldest |-> None, batches |-> 0, total |-> 0]

LoadCheckpoint(file) ==
    LET c == Load(file) IN
    IF c.kind = "ok" /\ c.channel_id = Job
    THEN [oldest |-> c.oldest_message_id, batches |-> c.batch_count,
          total |-> c.total_messages]
    ELSE [oldest |-> None, batches |-> 0, total |-> 0]

\* ------------------------------------------------------------ page source
\* "fetch up to N items older than cursor C": newest first, ids below the cursor.
SourcePage(before, limit) ==
    LET top == IF before = None THEN Len(timestamps) ELSE before - 1
        n == Min(Min(limit, PageSize), top)
    IN [i \in 1..n |-> top - i + 1]

\* args of _fetch_messages_batch: "before" only when there is a cursor.
Args == [channel_id |-> Job, limit |-> Limit, before |-> oldest_message_id]

\* ------------------------------------------------------------ retries
\* "retry_count <= self.max_retries": the loop goes on, a sleep and a retry follow.
RetriesLeftOneMore(n) == n <= max_retries + 1

RetriesLeft(n) == n <= max_retries

RECURSIVE Pow2(_)
Pow2(k) == IF k = 0 THEN 1 ELSE 2 * Pow2(k - 1)

\* wait_time = self.rate_limit_delay * (2 ** (retry_count - 1)), retry_count
\* being the number of failed attempts so far.
wait_time_from_count(n) == RateLimitDelay * Pow2(n)

wait_time(n) == RateLimitDelay * Pow2(n - 1)

\* ------------------------------------------------------------ date filter
NoFilter == start_date = None /\ end_date = None

\* The loop of _filter_messages_by_date reaches a timestamp fromisoformat rejects.
FilterRaises(msgs) ==
    /\ ~NoFilter
    /\ \E i \in 1..Len(msgs) : timestamps[msgs[i]] = BadTs

KeepMessageAfterStart(id) ==
    LET t == timestamps[id] IN
    /\ t # MissingTs
    /\ ~(start_date # None /\ t <= start_date)
    /\ ~(end_date # None /\ t > end_date)

KeepMessage(id) ==
    LET t == timestamps[id] IN
    /\ t # MissingTs
    /\ ~(start_date # None /\ t < start_date)
    /\ ~(end_date # None /\ t > end_date)

RECURSIVE FilterSeq(_)
FilterSeq(msgs) ==
    IF msgs = <<>> THEN <<>>
    ELSE IF KeepMessage(Head(msgs)) THEN <<Head(msgs)>> \o FilterSeq(Tail(msgs))
         ELSE FilterSeq(Tail(msgs))

FilterMessagesByDate(msgs) == IF NoFilter THEN msgs ELSE FilterSeq(msgs)

\* ------------------------------------------------------------ CircuitBreaker
\* A new CircuitBreaker(max_failures=n). last_failure_time is kept as
\* has_failure_time (it is not None) and since_failure (now - last_failure_time).
CircuitBreaker(n) == [max_failures |-> n, failures |-> 0, is_open |-> FALSE,
                      has_failure_time |-> FALSE, since_failure |-> 0]

\* max_failures is max_retries: CircuitBreaker(max_failures=max_retries).
NewBreakerAboveAttempts == CircuitBreaker(max_retries + 2)

NewBreaker == CircuitBreaker(max_retries)

record_failure_late(b) ==
    [b EXCEPT !.failures = @ + 1, !.has_failure_time = TRUE, !.since_failure = 0,
              !.is_open = IF b.failures + 1 > b.max_failures THEN TRUE ELSE @]

record_failure_keeps_time(b) ==
    [b EXCEPT !.failures = @ + 1,
              !.has_failure_time = TRUE,
              !.since_failure = IF b.has_failure_time THEN @ ELSE 0,
              !.is_open = IF b.failures + 1 >= b.max_failures THEN TRUE ELSE @]

record_failure(b) ==
    [b EXCEPT !.failures = @ + 1, !.has_failure_time = TRUE, !.since_failure = 0,
              !.is_open = IF b.failures + 1 >= b.max_failures THEN TRUE ELSE @]

record_success_keeps_time(b) ==
    [b EXCEPT !.failures = 0, !.is_open = FALSE]

record_success_keeps_open(b) ==
    [b EXCEPT !.failures = 0, !.has_failure_time = FALSE, !.since_failure = 0]

record_success(b) ==
    [b EXCEPT !.failures = 0, !.is_open = FALSE, !.has_failure_time = FALSE,
              !.since_failure = 0]

\* The value can_execute returns.
can_execute_at_timeout(b) ==
    IF b.is_open /\ b.has_failure_time /\ b.since_failure >= ResetTimeout
    THEN TRUE
    ELSE ~b.is_open

can_execute(b) ==
    IF b.is_open /\ b.has_failure_time /\ b.since_failure > ResetTimeout
    THEN TRUE
    ELSE ~b.is_open

\* The breaker after can_execute: the method assigns to no field.
can_execute_closes(b) ==
    IF can_execute(b) THEN [b EXCEPT !.is_open = FALSE] ELSE b

can_execute_counts_refusal(b) ==
    IF can_execute(b) THEN b ELSE [b EXCEPT !.failures = @ + 1]

after_can_execute(b) == b

\* ------------------------------------------------------------ ProgressTracker
\* A new ProgressTracker(total_items=total). last_update_time is kept as
\* since_update (now - last_update_time).
ProgressTracker(total) == [total_items |-> total, processed_items |-> 0,
                           since_update |-> 0]

\* The fetcher's tracker: ProgressTracker(stall_timeout=300), total_items = 0.
NewTracker == ProgressTracker(0)

update(t, count) ==
    [t EXCEPT !.processed_items = @ + count, !.since_update = 0]

\* The value is_stalled returns.
is_stalled_at_timeout(t) == t.since_update >= StallTimeout

is_stalled(t) == t.since_update > StallTimeout

\* The tracker after is_stalled: the method assigns to no field.
is_stalled_restamps(t) == [t EXCEPT !.since_update = 0]

after_is_stalled(t) == t

\* percentage_complete, a float, kept as the fraction num / den.
MinRatio(a, b) == IF b.num * a.den < a.num * b.den THEN b ELSE a

percentage_unclamped(t) ==
    IF t.total_items = 0 THEN [num |-> 0, den |-> 1]
    ELSE [num |-> t.processed_items * 100, den |-> t.total_items]

percentage_complete(t) ==
    IF t.total_items = 0 THEN [num |-> 0, den |-> 1]
    ELSE MinRatio([num |-> 100, den |-> 1],
                  [num |-> t.processed_items * 100, den |-> t.total_items])

\* ------------------------------------------------------------ exceptions
ExceptionClasses == {"RuntimeError", "NotImplementedError", "ValueError", "OSError"}

\* Does exc leave fetch_all? in_fetch: it was raised by _fetch_messages_batch,
\* inside the inner try. The inner handler takes RuntimeError and
\* NotImplementedError, the outer ones KeyboardInterrupt and every Exception.
PropagatesUnhandled(exc, in_fetch) == exc # "none"

Propagates(exc, in_fetch) ==
    /\ exc # "none"
    /\ ~(in_fetch /\ exc \in {"RuntimeError", "NotImplementedError"})
    /\ exc # "KeyboardInterrupt"
    /\ exc \notin ExceptionClasses

\* Where control goes when the loop is left: every break and every exception
\* passes through the finally block.
LeaveTargetNoFinally(exc) == IF exc = "none" THEN "finally" ELSE "returned"

LeaveTarget(exc) == "finally"

\* fetch_all's return value.
ReturnValueThisRun == total_messages - start.total

ReturnValue == total_messages

\* ------------------------------------------------------------ CheckpointData.save / load
\* The checkpoint as a Python object and as the JSON document save writes.
\* Values are tagged with their type; a datetime is its second and microsecond.
PyNone == [type |-> "NoneType", value |-> ""]
PyStr(s) == [type |-> "str", value |-> s]

JsonNull == [type |-> "null", value |-> ""]
JsonString(s) == [type |-> "string", value |-> s]

\* json.dump / json.load of an Optional[str].
ToJson(v) == IF v.type = "NoneType" THEN JsonNull ELSE JsonString(v.value)
FromJson(j) == IF j.type = "null" THEN PyNone ELSE PyStr(j.value)

\* Python's str().
str(v) == IF v.type = "NoneType" THEN PyStr("None") ELSE v

\* datetime.isoformat: "...:SS" and, unless microsecond is 0, ".ffffff".
isoformat(t) == IF t.microsecond = 0 THEN <<t.second>> ELSE <<t.second, t.microsecond>>

fromisoformat(text) ==
    [second |-> text[1], microsecond |-> IF Len(text) > 1 THEN text[2] ELSE 0]

\* CheckpointData.save: the document json.dump leaves in the file.
save(c) ==
    [kind |-> "json",
     channel_id |-> ToJson(c.channel_id),
     oldest_message_id |-> ToJson(c.oldest_message_id),
     batch_count |-> c.batch_count,
     total_messages |-> c.total_messages,
     last_updated |-> isoformat(c.last_updated)]

\* oldest_message_id = data.get("oldest_message_id"), str() of it unless None.
LoadCursorUnguarded(j) == str(FromJson(j))

LoadCursor(j) ==
    LET v == FromJson(j) IN IF v # PyNone THEN str(v) ELSE v

NoCheckpoint == [channel_id |-> PyStr(""), oldest_message_id |-> PyNone,
                 batch_count |-> 0, total_messages |-> 0,
                 last_updated |-> [second |-> 0, microsecond |-> 0]]

\* What load returns: None, or a CheckpointData.
NoneLoaded == [is_none |-> TRUE, checkpoint |-> NoCheckpoint]

\* CheckpointData.load of a file that save wrote, or of no file; now is the
\* clock, read when the document has no last_updated.
load(file, now) ==
    IF file.kind # "json" THEN NoneLoaded
    ELSE [is_none |-> FALSE,
          checkpoint |->
              [channel_id |-> str(FromJson(file.channel_id)),
               oldest_message_id |-> LoadCursor(file.oldest_message_id),
               batch_count |-> file.batch_count,
               total_messages |-> file.total_messages,
               last_updated |-> IF file.last_updated # <<>>
                                THEN fromisoformat(file.last_updated) ELSE now]]

\* ------------------------------------------------------------ initial states
NoOutcome == [exit |-> "none", exc |-> "none", raised |-> FALSE, retval |-> 0]
NoStart == [oldest |-> None, batches |-> 0, total |-> 0, afterCompleted |-> FALSE,
            diskCursor |-> None]
NoArgs == [channel_id |-> "", limit |-> 0, before |-> None]
NoneWritten == [files |-> 0, items |-> 0, pages |-> 0, pageItems |-> 0,
                cursors |-> {}, twice |-> FALSE, fetches |-> 0]
\* completed: a fetch_all has returned Exhausted. sinceNew: time since the
\* source last returned an item it had not returned before (kept only for the
\* source that repeats its page).
NoHist == [runs |-> 0, completed |-> FALSE, faults |-> 0, interrupts |-> 0,
           crashed |-> FALSE, crashedAfterWrite |-> FALSE, ioError |-> FALSE,
           refetches |-> 0, sinceNew |-> 0]

\* No method of the breaker has been called on its own; nothing saved or loaded.
NoCalls == [op |-> "none", result |-> FALSE, before |-> NewBreaker,
            after |-> NewBreaker, consecutive |-> 0]
NoStore == [checkpoint |-> NoCheckpoint, saved |-> FALSE, op |-> "none",
            loaded |-> NoneLoaded]

GoodTimestamps == [id \in 1..NumMsgs |-> id]

\* The jobs: no date filter; an empty channel; a start bound that cuts the oldest message off; an
\* end bound that cuts the newest off, in a channel where one message has no
\* timestamp; a start bound in a channel where one timestamp does not parse;
\* an end bound older than the whole newest page.
Configs ==
    { [start_date |-> None, end_date |-> None, timestamps |-> GoodTimestamps],
      [start_date |-> None, end_date |-> None, timestamps |-> <<>>],
      [start_date |-> 2, end_date |-> None, timestamps |-> GoodTimestamps],
      [start_date |-> None, end_date |-> NumMsgs - 1,
       timestamps |-> [GoodTimestamps EXCEPT ![2] = MissingTs]],
      [start_date |-> 2, end_date |-> None,
       timestamps |-> [GoodTimestamps EXCEPT ![1] = BadTs]],
      [start_date |-> None, end_date |-> NumMsgs - PageSize,
       timestamps |-> GoodTimestamps] }

\* The checkpoint file before the job first runs: none, the one another job
\* left, or a file that is no checkpoint.
InitialCheckpoints == {NoFile, CheckpointData(OtherJob, 2, 1, 2), MalformedFile}

MemoryDown ==
    /\ oldest_message_id = None /\ batch_count = 0 /\ total_messages = 0
    /\ cb = NewBreaker /\ progress = NewTracker
    /\ retry_count = 0 /\ slept = <<>> /\ messages = <<>> /\ outcome = NoOutcome

Init ==
    /\ ckptFile \in InitialCheckpoints
    /\ pageFiles = <<>>
    /\ \E c \in Configs :
        /\ start_date = c.start_date
        /\ end_date = c.end_date
        /\ timestamps = c.timestamps
    /\ max_retries = MaxRetries
    /\ pc = "down"
    /\ MemoryDown
    /\ start = NoStart /\ lastArgs = NoArgs
    /\ written = NoneWritten
    /\ prevCkpt = NoFile /\ fetched = {} /\ hist = NoHist /\ since_page = 0
    /\ calls = NoCalls /\ store = NoStore

\* ------------------------------------------------------------ the fetcher
\* DiscordMessageFetcher.__init__: load the checkpoint, new breaker and tracker.
Construct ==
    /\ pc = "down"
    /\ hist.runs < MaxRuns
    /\ IF LoadRaises(ckptFile)
       THEN /\ pc' = "ctor_raised"
            /\ UNCHANGED <<oldest_message_id, batch_count, total_messages, cb, progress>>
       ELSE LET c == LoadCheckpoint(ckptFile) IN
            /\ oldest_message_id' = c.oldest
            /\ batch_count' = c.batches
            /\ total_messages' = c.total
            /\ cb' = NewBreaker
            /\ progress' = NewTracker
            /\ pc' = "constructed"
    /\ since_page' = 0
    /\ UNCHANGED <<disk, config, unit, retry_count, slept, messages, outcome, start, lastArgs,
                   written, prevCkpt, fetched, hist>>

\* fetch_all is called, on a new fetcher or again on the one that has returned.
FetchAllEnter ==
    /\ pc \in {"constructed", "returned"}
    /\ hist.runs < MaxRuns
    /\ start' = [oldest |-> oldest_message_id, batches |-> batch_count,
                 total |-> total_messages, afterCompleted |-> hist.completed,
                 diskCursor |-> IF ckptFile.kind = "ok" /\ ckptFile.channel_id = Job
                                THEN ckptFile.oldest_message_id ELSE None]
    /\ written' = NoneWritten
    /\ lastArgs' = NoArgs
    /\ outcome' = NoOutcome
    /\ hist' = [hist EXCEPT !.runs = @ + 1]
    /\ pc' = "entered"
    /\ UNCHANGED <<disk, config, unit, oldest_message_id, batch_count, total_messages, cb,
                   progress, retry_count, slept, messages, prevCkpt, fetched, since_page>>

\* The logging before the loop.
EnterLoop ==
    /\ pc = "entered"
    /\ pc' = "stall_check"
    /\ UNCHANGED <<disk, config, unit, memory, history>>

\* Leave the loop for the finally block. exc is the exception that ended it
\* ("none" for a break), in_fetch whether _fetch_messages_batch raised it.
Leave(exit, exc, in_fetch) ==
    /\ outcome' = [exit |-> exit,
                   exc |-> IF Propagates(exc, in_fetch) THEN exc ELSE "none",
                   raised |-> FALSE, retval |-> 0]
    /\ pc' = LeaveTarget(exc)

\* if self.progress.is_stalled(): break
StallCheck ==
    /\ pc = "stall_check"
    /\ progress' = after_is_stalled(progress)
    /\ IF is_stalled(progress)
       THEN Leave("Stalled", "none", FALSE)
       ELSE pc' = "fetch_batch" /\ UNCHANGED outcome
    /\ UNCHANGED <<disk, config, unit, oldest_message_id, batch_count, total_messages, cb,
                   retry_count, slept, messages, history>>

\* _fetch_messages_batch, up to its retry loop.
FetchBatchBegin ==
    /\ pc = "fetch_batch"
    /\ cb' = after_can_execute(cb)
    /\ IF ~can_execute(cb)
       THEN Leave("CircuitOpen", "RuntimeError", TRUE) /\ UNCHANGED <<retry_count, slept>>
       ELSE pc' = "call" /\ retry_count' = 0 /\ slept' = <<>> /\ UNCHANGED outcome
    /\ written' = [written EXCEPT !.fetches = @ + 1]
    /\ UNCHANGED <<disk, config, unit, oldest_message_id, batch_count, total_messages,
                   progress, messages, start, lastArgs, prevCkpt, fetched, hist, since_page>>

\* _call_discord_mcp returns a page.
CallReturns ==
    /\ pc = "call"
    /\ lastArgs' = Args
    /\ messages' = SourcePage(Args.before, Args.limit)
    /\ cb' = record_success(cb)
    /\ fetched' = IF messages' # <<>> THEN fetched \cup {Args.before} ELSE fetched
    /\ hist' = IF messages' # <<>> /\ Args.before \in fetched
               THEN [hist EXCEPT !.refetches = @ + 1] ELSE hist
    /\ written' = [written EXCEPT
                       !.pages = IF messages' # <<>> THEN @ + 1 ELSE @,
                       !.pageItems = @ + Len(messages'),
                       !.cursors = @ \cup {Args.before},
                       !.twice = @ \/ Args.before \in written.cursors]
    /\ pc' = "filter"
    /\ UNCHANGED <<disk, config, unit, oldest_message_id, batch_count, total_messages,
                   progress, retry_count, slept, outcome, start, prevCkpt, since_page>>

\* _call_discord_mcp raises: count the failure, back off or give up.
CallRaises ==
    /\ pc = "call"
    /\ lastArgs' = Args
    /\ retry_count' = retry_count + 1
    /\ cb' = record_failure(cb)
    /\ IF RetriesLeft(retry_count')
       THEN /\ slept' = Append(slept, wait_time(retry_count'))
            /\ pc' = "backoff" /\ UNCHANGED outcome
       ELSE /\ Leave("RetryExhausted", "RuntimeError", TRUE)
            /\ UNCHANGED slept
    /\ UNCHANGED <<disk, config, unit, oldest_message_id, batch_count, total_messages,
                   progress, messages, start, written, prevCkpt, fetched, hist, since_page>>

\* time.sleep(wait_time) ends.
Backoff ==
    /\ pc = "backoff"
    /\ pc' = "call"
    /\ UNCHANGED <<disk, config, unit, memory, history>>

\* _filter_messages_by_date, the emptiness test and self.batch_count += 1.
\* if not messages: break
NoMessagesFromSource(m) == messages = <<>>

NoMessages(m) == m = <<>>

Filter ==
    /\ pc = "filter"
    /\ IF FilterRaises(messages)
       THEN /\ Leave("Error", "ValueError", FALSE)
            /\ UNCHANGED <<messages, batch_count>>
       ELSE LET kept == FilterMessagesByDate(messages) IN
            IF NoMessages(kept)
            THEN /\ Leave("Exhausted", "none", FALSE)
                 /\ UNCHANGED <<messages, batch_count>>
            ELSE /\ messages' = kept
                 /\ batch_count' = batch_count + 1
                 /\ pc' = "write"
                 /\ UNCHANGED outcome
    /\ UNCHANGED <<disk, config, unit, oldest_message_id, total_messages, cb, progress,
                   retry_count, slept, history>>

PutFile(n, file) ==
    [k \in DOMAIN pageFiles \cup {n} |-> IF k = n THEN file ELSE pageFiles[k]]

\* _save_messages_batch: open(batch_file, 'w') creates or truncates the file.
WriteBegin ==
    /\ pc = "write"
    /\ pageFiles' = PutFile(batch_count, [complete |-> FALSE, items |-> <<>>])
    /\ pc' = "writing"
    /\ UNCHANGED <<ckptFile, config, unit, memory, history>>

\* json.dump and close: the file holds the filtered page.
WriteEnd ==
    /\ pc = "writing"
    /\ pageFiles' = PutFile(batch_count, [complete |-> TRUE, items |-> messages])
    /\ written' = [written EXCEPT !.files = @ + 1, !.items = @ + Len(messages)]
    /\ since_page' = 0
    /\ pc' = "advance"
    /\ UNCHANGED <<ckptFile, config, unit, memory, start, lastArgs, prevCkpt, fetched, hist>>

\* open or json.dump raises (disk full, directory gone, ...).
WriteRaises ==
    /\ pc \in {"write", "writing"}
    /\ hist.faults < MaxFaults
    /\ Leave("Error", "OSError", FALSE)
    /\ hist' = [hist EXCEPT !.ioError = TRUE, !.faults = @ + 1]
    /\ UNCHANGED <<disk, config, unit, oldest_message_id, batch_count, total_messages, cb,
                   progress, retry_count, slept, messages, start, lastArgs, written,
                   prevCkpt, fetched, since_page>>

\* messages[-1]["id"], messages being the filtered page.
LastIdOfSourcePage(m) ==
    LET raw == SourcePage(lastArgs.before, lastArgs.limit) IN raw[Len(raw)]

LastIdNewest(m) == m[1]

LastId(m) == m[Len(m)]

\* self.oldest_message_id = messages[-1]["id"]
AdvanceCursor ==
    /\ pc = "advance"
    /\ oldest_message_id' = LastId(messages)
    /\ pc' = "count"
    /\ UNCHANGED <<disk, config, unit, batch_count, total_messages, cb, progress,
                   retry_count, slept, messages, outcome, history>>

\* self.total_messages += len(messages); self.progress.update(len(messages))
CountMessages ==
    /\ pc = "count"
    /\ total_messages' = total_messages + Len(messages)
    /\ progress' = update(progress, Len(messages))
    /\ pc' = "save"
    /\ UNCHANGED <<disk, config, unit, oldest_message_id, batch_count, cb, retry_count, slept,
                   messages, outcome, history>>

\* _save_checkpoint -> CheckpointData.save: open(file_path, 'w') truncates the file.
SaveBegin ==
    /\ pc \in {"save", "finally"}
    /\ prevCkpt' = IF ckptFile.kind = "ok" /\ ckptFile.channel_id = Job
                   THEN ckptFile ELSE prevCkpt
    /\ ckptFile' = TornFile
    /\ pc' = IF pc = "save" THEN "saving" ELSE "finally_saving"
    /\ UNCHANGED <<pageFiles, config, unit, memory, start, lastArgs, written, fetched, hist,
                   since_page>>

\* json.dump and close: the file holds the fetcher's state. After the save of
\* the finally block fetch_all returns, or the pending exception goes on.
SaveEnd ==
    /\ pc \in {"saving", "finally_saving"}
    /\ ckptFile' = CheckpointData(Job, oldest_message_id, batch_count, total_messages)
    /\ IF pc = "saving"
       THEN pc' = "sleep" /\ UNCHANGED <<outcome, hist>>
       ELSE /\ IF outcome.exc # "none"
               THEN pc' = "raised" /\ outcome' = [outcome EXCEPT !.raised = TRUE]
               ELSE pc' = "returned" /\ outcome' = [outcome EXCEPT !.retval = ReturnValue]
            /\ hist' = [hist EXCEPT !.completed = @ \/ outcome.exit = "Exhausted"]
    /\ UNCHANGED <<pageFiles, config, unit, oldest_message_id, batch_count, total_messages,
                   cb, progress, retry_count, slept, messages, start, lastArgs, written,
                   prevCkpt, fetched, since_page>>

\* time.sleep(self.rate_limit_delay) ends.
Sleep ==
    /\ pc = "sleep"
    /\ pc' = "stall_check"
    /\ UNCHANGED <<disk, config, unit, memory, history>>

\* ------------------------------------------------------------ the environment
LoopPcs == {"stall_check", "fetch_batch", "call", "backoff", "filter", "write",
            "writing", "advance", "count", "save", "saving", "sleep"}

\* The operator interrupts the loop: KeyboardInterrupt at the current statement.
Interrupt ==
    /\ pc \in LoopPcs
    /\ hist.faults < MaxFaults
    /\ Leave("Interrupted", "KeyboardInterrupt", pc \in {"fetch_batch", "call", "backoff"})
    /\ hist' = [hist EXCEPT !.interrupts = @ + 1, !.faults = @ + 1]
    /\ UNCHANGED <<disk, config, unit, oldest_message_id, batch_count, total_messages, cb,
                   progress, retry_count, slept, messages, start, lastArgs, written,
                   prevCkpt, fetched, since_page>>

\* The process dies at once (kill -9, power loss): no handler and no finally
\* block runs; the memory is lost and the files stay as they are.
Crash ==
    /\ pc \notin {"down", "constructed", "ctor_raised", "returned", "raised"}
    /\ hist.faults < MaxFaults
    /\ pc' = "down"
    /\ oldest_message_id' = None /\ batch_count' = 0 /\ total_messages' = 0
    /\ cb' = NewBreaker /\ progress' = NewTracker
    /\ retry_count' = 0 /\ slept' = <<>> /\ messages' = <<>> /\ outcome' = NoOutcome
    /\ hist' = [hist EXCEPT !.crashed = TRUE, !.faults = @ + 1,
                            !.crashedAfterWrite = @ \/ pc \in {"advance", "count", "save"}]
    /\ UNCHANGED <<disk, config, unit, start, lastArgs, written, prevCkpt, fetched,
                   since_page>>

\* The process ends after fetch_all (or without calling it).
ProcessExit ==
    /\ pc \in {"constructed", "ctor_raised", "returned", "raised"}
    /\ pc' = "down"
    /\ oldest_message_id' = None /\ batch_count' = 0 /\ total_messages' = 0
    /\ cb' = NewBreaker /\ progress' = NewTracker
    /\ retry_count' = 0 /\ slept' = <<>> /\ messages' = <<>> /\ outcome' = NoOutcome
    /\ UNCHANGED <<disk, config, unit, history>>

\* Time passes while the process is blocked or idle: in the source call, in the
\* inter-page sleep, before and between calls of fetch_all. (Time spent in a
\* backoff sleep is observed no earlier than time spent in the call after it.)
TimePasses(d) ==
    /\ pc \in {"constructed", "call", "sleep", "returned"}
    /\ cb' = IF cb.has_failure_time
             THEN [cb EXCEPT !.since_failure = Elapsed(@, d, ResetTimeout)]
             ELSE cb
    /\ progress' = [progress EXCEPT !.since_update = Elapsed(@, d, StallTimeout)]
    /\ UNCHANGED <<disk, config, unit, pc, oldest_message_id, batch_count, total_messages,
                   retry_count, slept, messages, outcome>>

Elapse ==
    /\ \E d \in Durations :
        /\ TimePasses(d)
        /\ since_page' = Elapsed(since_page, d, StallTimeout)
    /\ UNCHANGED <<start, lastArgs, written, prevCkpt, fetched, hist>>

Next ==
    \/ Construct \/ FetchAllEnter \/ EnterLoop
    \/ StallCheck \/ FetchBatchBegin \/ CallReturns \/ CallRaises \/ Backoff
    \/ Filter \/ WriteBegin \/ WriteEnd \/ WriteRaises
    \/ AdvanceCursor \/ CountMessages \/ SaveBegin \/ SaveEnd \/ Sleep
    \/ Interrupt \/ Crash \/ ProcessExit \/ Elapse

Spec == Init /\ [][Next]_vars

\* The fetcher on a job without date filter and without a checkpoint file: the
\* runs in which only the page source, the breaker and the faults vary.
InitPlainJob ==
    /\ Init
    /\ ckptFile = NoFile
    /\ NoFilter
    /\ timestamps = GoodTimestamps

SpecPlainJob == InitPlainJob /\ [][Next]_vars

\* The same job for every max_retries from 1 to MaxAttempts, with a page
\* source that may fail at any call and no other fault.
RetryInit ==
    /\ ckptFile = NoFile /\ pageFiles = <<>>
    /\ timestamps = GoodTimestamps /\ start_date = None /\ end_date = None
    /\ max_retries \in 1..MaxAttempts
    /\ pc = "down"
    /\ MemoryDown
    /\ start = NoStart /\ lastArgs = NoArgs
    /\ written = NoneWritten
    /\ prevCkpt = NoFile /\ fetched = {} /\ hist = NoHist /\ since_page = 0
    /\ calls = NoCalls /\ store = NoStore

RetryNext ==
    \/ Construct \/ FetchAllEnter \/ EnterLoop
    \/ StallCheck \/ FetchBatchBegin \/ CallReturns \/ CallRaises \/ Backoff
    \/ Filter \/ WriteBegin \/ WriteEnd
    \/ AdvanceCursor \/ CountMessages \/ SaveBegin \/ SaveEnd \/ Sleep
    \/ ProcessExit \/ Elapse

SpecRetry == RetryInit /\ [][RetryNext]_vars

\* The jobs with and without a date filter, started without a checkpoint file
\* and run without interrupt, kill or write error.
FilteredJobInit ==
    /\ Init
    /\ ckptFile = NoFile

SpecFilteredJob == FilteredJobInit /\ [][RetryNext]_vars

\* A page source that returns the same non-empty page whatever the cursor: the
\* newest page of the channel. The breaker, the filter and the loop are the
\* fetcher's own; one fetch_all is followed, for MaxStuckPages pages at most.
StuckPage == SourcePage(None, Limit)

CallReturnsSame ==
    /\ pc = "call"
    /\ batch_count < MaxStuckPages
    /\ lastArgs' = Args
    /\ messages' = StuckPage
    /\ cb' = record_success(cb)
    /\ fetched' = fetched \cup {Args.before}
    /\ hist' = [hist EXCEPT !.sinceNew = IF fetched = {} THEN 0 ELSE @,
                            !.refetches = IF fetched = {} THEN @ ELSE @ + 1]
    /\ written' = [written EXCEPT !.pages = @ + 1, !.pageItems = @ + Len(messages'),
                                  !.cursors = @ \cup {Args.before},
                                  !.twice = @ \/ Args.before \in written.cursors]
    /\ pc' = "filter"
    /\ UNCHANGED <<disk, config, unit, oldest_message_id, batch_count, total_messages,
                   progress, retry_count, slept, outcome, start, prevCkpt, since_page>>

ElapseStuck ==
    /\ \E d \in Durations :
        /\ TimePasses(d)
        /\ hist' = [hist EXCEPT !.sinceNew = Elapsed(@, d, StallTimeout)]
        /\ since_page' = Elapsed(since_page, d, StallTimeout)
    /\ UNCHANGED <<start, lastArgs, written, prevCkpt, fetched>>

StuckNext ==
    \/ Construct \/ FetchAllEnter \/ EnterLoop
    \/ StallCheck \/ FetchBatchBegin \/ CallReturnsSame
    \/ Filter \/ WriteBegin \/ WriteEnd
    \/ AdvanceCursor \/ CountMessages \/ SaveBegin \/ SaveEnd \/ Sleep
    \/ ElapseStuck

SpecStuck == InitPlainJob /\ [][StuckNext]_vars

\* The jobs above and one whose date filter keeps only the first item of the
\* newest page (the others have no timestamp), started without a checkpoint file; the source
\* may fail at any call, and the statements of fetch_all, once it is entered,
\* go on being executed: a source call returns or raises, a sleep ends.
TerminationConfigs ==
    Configs \cup
    { [start_date |-> 1, end_date |-> None,
       timestamps |-> [id \in 1..NumMsgs |->
                          IF id \in (NumMsgs - PageSize + 1)..(NumMsgs - 1)
                          THEN MissingTs ELSE id]] }

TerminationInit ==
    /\ ckptFile = NoFile /\ pageFiles = <<>>
    /\ \E c \in TerminationConfigs :
        /\ start_date = c.start_date
        /\ end_date = c.end_date
        /\ timestamps = c.timestamps
    /\ max_retries = MaxRetries
    /\ pc = "down"
    /\ MemoryDown
    /\ start = NoStart /\ lastArgs = NoArgs
    /\ written = NoneWritten
    /\ prevCkpt = NoFile /\ fetched = {} /\ hist = NoHist /\ since_page = 0
    /\ calls = NoCalls /\ store = NoStore

FetchAllStep ==
    \/ EnterLoop
    \/ StallCheck \/ FetchBatchBegin \/ CallReturns \/ CallRaises \/ Backoff
    \/ Filter \/ WriteBegin \/ WriteEnd
    \/ AdvanceCursor \/ CountMessages \/ SaveBegin \/ SaveEnd \/ Sleep

SpecTermination ==
    TerminationInit /\ [][RetryNext]_vars /\ WF_vars(FetchAllStep)

\* ------------------------------------------------------------ CircuitBreaker on its own
\* No fetcher runs: the rest of the state stays as it starts.
fetcherVars == <<pageFiles, config, pc, oldest_message_id, batch_count, total_messages,
                 progress, retry_count, slept, messages, outcome, history>>

FetcherIdle ==
    /\ pageFiles = <<>>
    /\ timestamps = <<>> /\ start_date = None /\ end_date = None
    /\ max_retries = MaxRetries
    /\ pc = "down"
    /\ oldest_message_id = None /\ batch_count = 0 /\ total_messages = 0
    /\ retry_count = 0 /\ slept = <<>> /\ messages = <<>> /\ outcome = NoOutcome
    /\ start = NoStart /\ lastArgs = NoArgs
    /\ written = NoneWritten
    /\ prevCkpt = NoFile /\ fetched = {} /\ hist = NoHist /\ since_page = 0

\* The times between two calls: just short of reset_timeout, equal to it, beyond.
BreakerDurations == {ResetTimeout - 1, ResetTimeout, ResetTimeout + 1}

BreakerInit ==
    /\ FetcherIdle
    /\ ckptFile = NoFile
    /\ progress = NewTracker
    /\ store = NoStore
    /\ \E n \in 1..MaxThreshold : cb = CircuitBreaker(n)
    /\ calls = [NoCalls EXCEPT !.before = cb, !.after = cb]

\* A caller calls breaker.record_failure().
BreakerRecordFailure ==
    /\ cb.failures < cb.max_failures + MaxProbes
    /\ cb' = record_failure(cb)
    /\ calls' = [op |-> "record_failure", result |-> FALSE, before |-> cb,
                 after |-> cb', consecutive |-> calls.consecutive + 1]
    /\ UNCHANGED <<ckptFile, fetcherVars, store>>

\* A caller calls breaker.record_success().
BreakerRecordSuccess ==
    /\ cb' = record_success(cb)
    /\ calls' = [op |-> "record_success", result |-> FALSE, before |-> cb,
                 after |-> cb', consecutive |-> 0]
    /\ UNCHANGED <<ckptFile, fetcherVars, store>>

\* A caller calls breaker.can_execute().
BreakerCanExecute ==
    /\ cb' = after_can_execute(cb)
    /\ calls' = [op |-> "can_execute", result |-> can_execute(cb), before |-> cb,
                 after |-> cb', consecutive |-> calls.consecutive]
    /\ UNCHANGED <<ckptFile, fetcherVars, store>>

\* Time passes between two calls.
BreakerElapse ==
    /\ cb.has_failure_time
    /\ \E d \in BreakerDurations :
        cb' = [cb EXCEPT !.since_failure = Elapsed(@, d, ResetTimeout)]
    /\ UNCHANGED <<ckptFile, fetcherVars, calls, store>>

BreakerNext ==
    \/ BreakerRecordFailure \/ BreakerRecordSuccess \/ BreakerCanExecute
    \/ BreakerElapse

SpecBreaker == BreakerInit /\ [][BreakerNext]_vars

\* ------------------------------------------------------------ ProgressTracker on its own
\* The log of the calls made on the tracker: the last method, its argument and
\* results, the tracker before and after it; idle is the time since the last
\* update (or since the tracker was made), idle_at_call its value when the
\* method was called, added the sum of the counts given.
NoTrackerCalls(t) ==
    [op |-> "none", count |-> 0, stalled |-> FALSE,
     percentage |-> [num |-> 0, den |-> 1],
     before |-> t, after |-> t, idle |-> 0, idle_at_call |-> 0, added |-> 0]

TrackerDurations == {StallTimeout - 1, StallTimeout, StallTimeout + 1}

trackerIdleVars == <<ckptFile, pageFiles, config, pc, oldest_message_id, batch_count,
                     total_messages, cb, retry_count, slept, messages, outcome, history, store>>

TrackerInit ==
    /\ FetcherIdle
    /\ ckptFile = NoFile
    /\ cb = NewBreaker
    /\ store = NoStore
    /\ \E total \in 0..MaxTotal : progress = ProgressTracker(total)
    /\ calls = NoTrackerCalls(progress)

\* A caller calls tracker.update(count).
TrackerUpdate ==
    /\ \E count \in 0..MaxUpdate :
        /\ progress.processed_items + count <= MaxTotal + MaxUpdate
        /\ progress' = update(progress, count)
        /\ calls' = [calls EXCEPT !.op = "update", !.count = count,
                                  !.before = progress, !.after = progress',
                                  !.idle_at_call = calls.idle, !.idle = 0,
                                  !.added = @ + count]
    /\ UNCHANGED trackerIdleVars

\* A caller calls tracker.is_stalled().
TrackerIsStalled ==
    /\ progress' = after_is_stalled(progress)
    /\ calls' = [calls EXCEPT !.op = "is_stalled", !.stalled = is_stalled(progress),
                              !.before = progress, !.after = progress',
                              !.idle_at_call = calls.idle]
    /\ UNCHANGED trackerIdleVars

\* A caller reads tracker.percentage_complete.
TrackerPercentage ==
    /\ calls' = [calls EXCEPT !.op = "percentage_complete",
                              !.percentage = percentage_complete(progress),
                              !.before = progress, !.after = progress,
                              !.idle_at_call = calls.idle]
    /\ UNCHANGED <<progress, trackerIdleVars>>

\* Time passes between two calls.
TrackerElapse ==
    /\ \E d \in TrackerDurations :
        /\ progress' = [progress EXCEPT !.since_update = Elapsed(@, d, StallTimeout)]
        /\ calls' = [calls EXCEPT !.idle = Elapsed(@, d, StallTimeout)]
    /\ UNCHANGED trackerIdleVars

TrackerNext ==
    \/ TrackerUpdate \/ TrackerIsStalled \/ TrackerPercentage \/ TrackerElapse

SpecTracker == TrackerInit /\ [][TrackerNext]_vars

\* ------------------------------------------------------------ _filter_messages_by_date on its own
\* The log of the call: the page given, whether the call raised, the page returned.
NoFilterCalls == [op |-> "none", raised |-> FALSE, page |-> <<>>, result |-> <<>>]

\* A page as the source returns it: ids n..1, newest first.
Pages == {[i \in 1..n |-> n - i + 1] : n \in 0..MaxPage}

\* Any timestamps, missing and unparsable ones included; any bounds.
FilterInit ==
    /\ ckptFile = NoFile /\ pageFiles = <<>>
    /\ max_retries = MaxRetries
    /\ pc = "down"
    /\ oldest_message_id = None /\ batch_count = 0 /\ total_messages = 0
    /\ cb = NewBreaker /\ progress = NewTracker
    /\ retry_count = 0 /\ slept = <<>> /\ outcome = NoOutcome
    /\ start = NoStart /\ lastArgs = NoArgs
    /\ written = NoneWritten
    /\ prevCkpt = NoFile /\ fetched = {} /\ hist = NoHist /\ since_page = 0
    /\ store = NoStore
    /\ timestamps \in [1..MaxPage -> (1..MaxTime) \cup {MissingTs, BadTs}]
    /\ start_date \in {None} \cup (1..MaxTime)
    /\ end_date \in {None} \cup (1..MaxTime)
    /\ messages \in Pages
    /\ calls = NoFilterCalls

\* A caller calls fetcher._filter_messages_by_date(messages).
FilterPage ==
    /\ calls.op = "none"
    /\ calls' = [op |-> "filter",
                 raised |-> FilterRaises(messages),
                 page |-> messages,
                 result |-> IF FilterRaises(messages) THEN <<>>
                            ELSE FilterMessagesByDate(messages)]
    /\ UNCHANGED <<disk, config, pc, memory, history, store>>

FilterNext == FilterPage

SpecFilter == FilterInit /\ [][FilterNext]_vars

\* ------------------------------------------------------------ CheckpointData on its own
\* The checkpoints saved: either job, no cursor or a cursor (the empty string
\* too), counts from 0, a time with and without microseconds.
Times == [second : {1, 2}, microsecond : {0, 500000}]

Checkpoints ==
    [channel_id : {PyStr(Job), PyStr(OtherJob)},
     oldest_message_id : {PyNone, PyStr(""), PyStr("17")},
     batch_count : 0..MaxCount,
     total_messages : 0..MaxCount,
     last_updated : Times]

StoreInit ==
    /\ FetcherIdle
    /\ ckptFile = NoFile
    /\ cb = NewBreaker /\ progress = NewTracker /\ calls = NoCalls
    /\ \E c \in Checkpoints : store = [NoStore EXCEPT !.checkpoint = c]

\* checkpoint.save(file_path)
StoreSave ==
    /\ ckptFile' = save(store.checkpoint)
    /\ store' = [store EXCEPT !.saved = TRUE, !.op = "save"]
    /\ UNCHANGED <<fetcherVars, cb, calls>>

\* CheckpointData.load(file_path), at any time of the clock.
StoreLoad ==
    /\ \E now \in Times :
        store' = [store EXCEPT !.loaded = load(ckptFile, now), !.op = "load"]
    /\ UNCHANGED <<ckptFile, fetcherVars, cb, calls>>

StoreNext == StoreSave \/ StoreLoad

SpecStore == StoreInit /\ [][StoreNext]_vars

\* ------------------------------------------------------------ properties
JobCheckpoint(file) == file.kind = "ok" /\ file.channel_id = Job

InMemory == [oldest |-> oldest_message_id, batches |-> batch_count,
             total |-> total_messages]
Fresh == [oldest |-> None, batches |-> 0, total |-> 0]
OnDisk == [oldest |-> ckptFile.oldest_message_id, batches |-> ckptFile.batch_count,
           total |-> ckptFile.total_messages]

CompleteFiles == {n \in DOMAIN pageFiles : pageFiles[n].complete}

\* The places (file, position) where the page files hold message id.
Copies(id) ==
    {<<n, i>> \in CompleteFiles \X (1..PageSize) :
        i <= Len(pageFiles[n].items) /\ pageFiles[n].items[i] = id}

SourceIds == 1..Len(timestamps)

Returned == pc = "returned"

\* C1: when fetch_all is entered, the cursor, the page count and the item count
\* are those of the checkpoint on disk if it is a checkpoint of this job, and
\* (none, 0, 0) otherwise.
C1_EntryFromCheckpoint ==
    pc = "entered" =>
        InMemory = IF JobCheckpoint(ckptFile) THEN OnDisk ELSE Fresh

C1_Witness ==
    /\ pc = "entered"
    /\ JobCheckpoint(ckptFile)
    /\ hist.crashed
    /\ batch_count > 0 /\ oldest_message_id # None

\* C2: a fetcher built over the checkpoint of another job is built without an
\* error and starts from (none, 0, 0).
C2_OtherJobIgnored ==
    (pc \in {"constructed", "ctor_raised"}
        /\ ckptFile.kind = "ok" /\ ckptFile.channel_id # Job)
    => (pc = "constructed" /\ InMemory = Fresh)

C2_Witness ==
    /\ pc = "constructed"
    /\ ckptFile = CheckpointData(OtherJob, 2, 1, 2)
    /\ InMemory = Fresh

\* C3: a fetch_all without date filter that ends Exhausted after k non-empty
\* pages returns the item count it started from plus the sizes of the k pages,
\* has written k page files, and leaves a checkpoint whose page count is the
\* starting one plus k and whose item count is the value returned.
C3_EndToEnd ==
    (Returned /\ outcome.exit = "Exhausted" /\ NoFilter) =>
        /\ outcome.retval = start.total + written.pageItems
        /\ written.files = written.pages
        /\ JobCheckpoint(ckptFile)
        /\ ckptFile.batch_count = start.batches + written.pages
        /\ ckptFile.total_messages = outcome.retval

C3_Witness ==
    /\ Returned /\ outcome.exit = "Exhausted" /\ NoFilter
    /\ start.batches > 0 /\ start.total > 0
    /\ written.pages > 0
    /\ hist.faults = 0

\* C4 as claimed: in a fetch_all that follows a completed one, with the
\* checkpoint kept, every request carries a cursor, equal to the checkpoint's or
\* older.
C4_Original ==
    (start.afterCompleted /\ hist.faults = 0 /\ lastArgs.channel_id = Job) =>
        (lastArgs.before # None /\ lastArgs.before <= start.diskCursor)

\* C4 as amended: when the checkpoint kept from the completed run holds a
\* cursor, every request of the next run carries a cursor equal to it or older;
\* when it holds none, the first request carries none.
C4_ResumeFromCursor ==
    (start.afterCompleted /\ hist.faults = 0 /\ lastArgs.channel_id = Job) =>
        IF start.diskCursor # None
        THEN lastArgs.before # None /\ lastArgs.before <= start.diskCursor
        ELSE written.pages = 0 => lastArgs.before = None

C4_Witness ==
    /\ start.afterCompleted /\ hist.faults = 0
    /\ pc = "filter"
    /\ lastArgs.channel_id = Job
    /\ start.diskCursor # None
    /\ lastArgs.before = start.diskCursor
    /\ DOMAIN pageFiles # {}

\* C5: when fetch_all is left, however the loop ended, the checkpoint file holds
\* this job's identity and the cursor and counts the fetcher has in memory.
C5_CheckpointOnEveryExit ==
    pc \in {"returned", "raised"} =>
        ckptFile = CheckpointData(Job, oldest_message_id, batch_count, total_messages)

C5_Witness ==
    /\ Returned
    /\ outcome.exit = "Error"
    /\ hist.ioError
    /\ ckptFile = CheckpointData(Job, oldest_message_id, batch_count, total_messages)

C7_CheckpointBehindFiles ==
    JobCheckpoint(ckptFile) => ckptFile.batch_count <= Cardinality(CompleteFiles)

\* C8: after a crash between the writing of a page file and the update of the
\* checkpoint, a later run that ends Exhausted leaves every message of the
\* channel in exactly one page file (no date filter, no other kind of fault).
C8_CrashSafe ==
    (hist.crashedAfterWrite /\ hist.interrupts = 0 /\ ~hist.ioError
        /\ Returned /\ outcome.exit = "Exhausted" /\ NoFilter)
    => \A id \in SourceIds : Cardinality(Copies(id)) = 1

C8_Witness ==
    /\ hist.crashedAfterWrite /\ hist.interrupts = 0 /\ ~hist.ioError
    /\ Returned /\ outcome.exit = "Exhausted" /\ NoFilter
    /\ SourceIds # {}
    /\ \A id \in SourceIds : Cardinality(Copies(id)) = 1

\* C9: with operator interrupts as the only faults, the interrupted fetch_all
\* returns with its state persisted, a later run that ends Exhausted leaves
\* every message of the channel in a page file (no date filter), and no more
\* non-empty pages are fetched a second time than there were interrupts.
C9_InterruptSafe ==
    (hist.interrupts > 0 /\ ~hist.crashed /\ ~hist.ioError /\ NoFilter) =>
        /\ (Returned /\ outcome.exit = "Interrupted") =>
               ckptFile = CheckpointData(Job, oldest_message_id, batch_count,
                                         total_messages)
        /\ (Returned /\ outcome.exit = "Exhausted") =>
               \A id \in SourceIds : Copies(id) # {}
        /\ hist.refetches <= hist.interrupts

C9_Witness ==
    /\ hist.interrupts = 1 /\ ~hist.crashed /\ ~hist.ioError /\ NoFilter
    /\ Returned /\ outcome.exit = "Exhausted"
    /\ hist.refetches = 1
    /\ \A id \in SourceIds : Copies(id) # {}

\* C10: from one complete checkpoint of the job to the next one, the page
\* count and the item count do not decrease.
C10_CountsNeverDecrease ==
    (JobCheckpoint(ckptFile) /\ prevCkpt.kind = "ok") =>
        /\ ckptFile.batch_count >= prevCkpt.batch_count
        /\ ckptFile.total_messages >= prevCkpt.total_messages

\* C11: the checkpoint file never holds a half-written checkpoint, neither
\* while a save is under way nor after a save cut short by a crash.
C11_NeverHalfWritten ==
    ckptFile.kind # "torn"

\* C12: building a fetcher over a checkpoint file that is absent, unparsable or
\* parsable but malformed raises nothing and starts the job fresh.
C12_LoadNeverRaises ==
    (pc \in {"constructed", "ctor_raised"}
        /\ ckptFile.kind \in {"absent", "torn", "malformed"})
    => (pc = "constructed" /\ InMemory = Fresh)

\* C13: the checkpoint loaded from the file that save(c) wrote has c's job
\* identity, cursor (none included), page count and item count, and a
\* last-updated time equal to c's to the second.
C13_RoundTrip ==
    (store.saved /\ store.op = "load") =>
        /\ ~store.loaded.is_none
        /\ store.loaded.checkpoint.channel_id = store.checkpoint.channel_id
        /\ store.loaded.checkpoint.oldest_message_id = store.checkpoint.oldest_message_id
        /\ store.loaded.checkpoint.batch_count = store.checkpoint.batch_count
        /\ store.loaded.checkpoint.total_messages = store.checkpoint.total_messages
        /\ store.loaded.checkpoint.last_updated.second
               = store.checkpoint.last_updated.second

C13_Witness ==
    /\ store.saved /\ store.op = "load"
    /\ store.checkpoint.oldest_message_id = PyNone
    /\ store.checkpoint.batch_count > 0
    /\ store.checkpoint.last_updated.microsecond # 0
    /\ store.loaded.checkpoint = store.checkpoint

\* C14: whatever methods have been called on a breaker, it is open exactly when
\* max_failures or more failures have been recorded since the last success (or
\* since it was made).
C14_OpenIffThreshold ==
    cb.is_open <=> calls.consecutive >= cb.max_failures

C14_Witness ==
    /\ calls.op = "record_failure"
    /\ cb.max_failures > 1
    /\ ~calls.before.is_open
    /\ cb.is_open
    /\ calls.consecutive = cb.max_failures

\* C15: after record_success, whatever the breaker's state was, the failure
\* count is zero, the breaker is not open, there is no last-failure time, and
\* can_execute returns true.
C15_SuccessResets ==
    calls.op = "record_success" =>
        /\ cb.failures = 0
        /\ ~cb.is_open
        /\ ~cb.has_failure_time
        /\ can_execute(cb)

C15_Witness ==
    /\ calls.op = "record_success"
    /\ calls.before.is_open /\ ~can_execute(calls.before)
    /\ calls.before.failures > calls.before.max_failures
    /\ can_execute(cb)

\* C16 as claimed: on an open breaker can_execute returns true exactly when
\* reset_timeout seconds or more have passed since the last failure.
C16_Original ==
    (calls.op = "can_execute" /\ calls.before.is_open /\ calls.before.has_failure_time)
    => (calls.result <=> calls.before.since_failure >= ResetTimeout)

\* C16 as amended: on an open breaker can_execute returns true exactly when
\* more than reset_timeout seconds have passed since the last failure.
C16_AfterTimeout ==
    (calls.op = "can_execute" /\ calls.before.is_open /\ calls.before.has_failure_time)
    => (calls.result <=> calls.before.since_failure > ResetTimeout)

C16_Witness ==
    /\ calls.op = "can_execute"
    /\ calls.before.is_open
    /\ calls.before.since_failure = ResetTimeout
    /\ ~calls.result

\* C17: can_execute leaves the breaker as it was: the same failure count,
\* last-failure time and open flag, also when it returns true on an open
\* breaker.
C17_CanExecuteFrame ==
    calls.op = "can_execute" =>
        /\ calls.after = calls.before
        /\ cb.failures = calls.before.failures
        /\ cb.is_open = calls.before.is_open
        /\ cb.has_failure_time = calls.before.has_failure_time

C17_Witness ==
    /\ calls.op = "can_execute"
    /\ calls.result
    /\ calls.before.is_open
    /\ cb.is_open

\* C18: a failure recorded on an open breaker whose reset_timeout has passed
\* adds one to the failure count, leaves the breaker open and restarts the
\* timer: can_execute is false while less than reset_timeout has passed since
\* that failure.
C18_FailedProbe ==
    (calls.op = "record_failure" /\ calls.before.is_open /\ can_execute(calls.before))
    => /\ calls.after.failures = calls.before.failures + 1
       /\ calls.after.is_open
       /\ calls.after.since_failure = 0
       /\ cb.is_open
       /\ (cb.since_failure < ResetTimeout => ~can_execute(cb))

C18_Witness ==
    /\ calls.op = "record_failure"
    /\ calls.before.is_open /\ can_execute(calls.before)
    /\ cb.since_failure = ResetTimeout - 1
    /\ ~can_execute(cb)

\* C19: a page fetch that finds can_execute false ends at once as CircuitOpen,
\* without a call to the page source and with the breaker as it was.
C19_RefusedFetch ==
    [][(pc = "fetch_batch" /\ ~can_execute(cb) /\ hist' = hist)
        => /\ pc' = "finally"
           /\ outcome'.exit = "CircuitOpen"
           /\ cb' = cb
           /\ lastArgs' = lastArgs /\ fetched' = fetched]_vars

C19_Witness ==
    /\ pc = "finally"
    /\ outcome.exit = "CircuitOpen"
    /\ cb.is_open /\ cb.failures > 0
    /\ lastArgs = NoArgs

\* C20: whenever the page source is being called, first attempt or retry, the
\* breaker permits the call.
C20_CallsOnlyWhenPermitted ==
    pc = "call" => can_execute(cb)

\* C21: with a source that returns the same non-empty page for ever, the loop
\* ends as Stalled once the stall timeout has passed: it never goes on to fetch
\* another page when more than stall_timeout has passed since the source last
\* returned an item it had not returned before.
C21_StuckSourceStalls ==
    (pc = "fetch_batch" /\ fetched # {}) => ~(hist.sinceNew > StallTimeout)

\* C22: is_stalled returns true exactly when more than stall_timeout seconds
\* have passed since the last update (since the tracker was made, when there
\* was none); update(count) adds count to processed_items and restarts that
\* time.
C22_StalledAfterTimeout ==
    /\ calls.op = "is_stalled" =>
           (calls.stalled <=> calls.idle_at_call > StallTimeout)
    /\ calls.op = "update" =>
           /\ calls.after.processed_items = calls.before.processed_items + calls.count
           /\ calls.after.processed_items = calls.added
           /\ calls.after.since_update = 0

C22_Witness ==
    /\ calls.op = "is_stalled"
    /\ ~calls.stalled
    /\ calls.idle_at_call = StallTimeout
    /\ calls.added > 0

\* C23: percentage_complete is at least 0 and at most 100; it is 0 when
\* total_items is 0, and otherwise the smaller of 100 and
\* 100 * processed / total (counts of items: 0 or more).
C23_PercentageClamped ==
    calls.op = "percentage_complete" =>
        LET pct == calls.percentage
            total == calls.before.total_items
        IN /\ pct.den > 0
           /\ pct.num >= 0
           /\ pct.num <= 100 * pct.den
           /\ total = 0 => pct.num = 0
           /\ total > 0 =>
                  pct.num * total = Min(100 * total, 100 * calls.added) * pct.den

C23_Witness ==
    /\ calls.op = "percentage_complete"
    /\ calls.before.total_items > 0
    /\ calls.added > calls.before.total_items
    /\ calls.percentage = [num |-> 100, den |-> 1]

\* C24: the stall check changes neither the tracker nor the breaker: when
\* is_stalled is true the run ends as Stalled with the breaker's failure count,
\* last-failure time and open flag as they were and without a call to the page
\* source.
C24_StallCheckFrame ==
    [][(pc = "stall_check" /\ hist' = hist)
        => /\ progress' = progress
           /\ cb' = cb
           /\ lastArgs' = lastArgs /\ fetched' = fetched
           /\ is_stalled(progress) =>
                  (pc' = "finally" /\ outcome'.exit = "Stalled")]_vars

C24_Witness ==
    /\ pc = "finally"
    /\ outcome.exit = "Stalled"
    /\ cb.is_open /\ cb.failures > 0
    /\ lastArgs = NoArgs

\* The range rule: no start bound or time >= start, and no end bound or
\* time <= end.
InRange(id) ==
    /\ (start_date = None \/ timestamps[id] >= start_date)
    /\ (end_date = None \/ timestamps[id] <= end_date)

HasTime(id) == timestamps[id] \notin {MissingTs, BadTs}

InRangeWithTime(id) == HasTime(id) /\ InRange(id)

\* C25: of a page whose items carry a time, date filtering returns the
\* sub-sequence of the items in range, in the page's order, and the page itself
\* when neither bound is set.
C25_FilterByRange ==
    (calls.op = "filter" /\ \A i \in 1..Len(calls.page) : HasTime(calls.page[i]))
    => /\ ~calls.raised
       /\ calls.result = SelectSeq(calls.page, InRange)
       /\ NoFilter => calls.result = calls.page

C25_Witness ==
    /\ calls.op = "filter"
    /\ \A i \in 1..Len(calls.page) : HasTime(calls.page[i])
    /\ start_date # None /\ end_date # None
    /\ Len(calls.page) = MaxPage
    /\ Len(calls.result) = 1
    /\ timestamps[calls.result[1]] = start_date

\* C26: with a bound set, filtering a page never fails: the items without a
\* time or with an unparsable one are left out and the others are kept or
\* dropped by the range rule.
C26_BadTimestampsDropped ==
    (calls.op = "filter" /\ ~NoFilter)
    => /\ ~calls.raised
       /\ calls.result = SelectSeq(calls.page, InRangeWithTime)

\* C27: the file of a completed page is never written again: every page, in
\* the same run or after a resume, goes to a file with a higher number.
C27_PageFilesKept ==
    [][\A n \in CompleteFiles :
          n \in DOMAIN pageFiles' /\ pageFiles'[n] = pageFiles[n]]_vars

\* C28: in a page fetch every failed call adds one failure to the breaker and
\* one to the retry count, a call is made only after at most max_retries
\* failures (max_retries + 1 calls at most), a successful call records a success
\* and hands its page on, and the fetch gives up exactly at failure
\* max_retries + 1.
C28_RetryAccounting ==
    [][hist' = hist =>
        /\ (pc = "call" /\ pc' \in {"backoff", "finally"}) =>
               /\ cb'.failures = cb.failures + 1
               /\ retry_count' = retry_count + 1
               /\ pc' = "finally" <=> retry_count' = max_retries + 1
               /\ pc' = "finally" => outcome'.exit = "RetryExhausted"
        /\ (pc = "call" /\ pc' = "filter") =>
               /\ cb'.failures = 0 /\ ~cb'.is_open
               /\ messages' = SourcePage(oldest_message_id, Limit)
               /\ retry_count' = retry_count
        /\ pc' = "call" => retry_count' <= max_retries]_vars

C28_Witness ==
    /\ pc = "finally"
    /\ outcome.exit = "RetryExhausted"
    /\ retry_count = max_retries + 1
    /\ cb.failures = max_retries + 1

\* C29: the i-th sleep of a page fetch (i from 0) lasts rate_limit_delay * 2^i;
\* there is one sleep per failed attempt that a retry follows, max_retries when
\* every attempt fails, and none after the last attempt.
C29_BackoffDelays ==
    /\ \A i \in 1..Len(slept) : slept[i] = RateLimitDelay * 2^(i - 1)
    /\ Len(slept) = Min(retry_count, max_retries)
    /\ pc = "backoff" => Len(slept) = retry_count
    /\ (pc = "finally" /\ outcome.exit = "RetryExhausted") =>
           (retry_count = max_retries + 1 /\ Len(slept) = max_retries)

C29_Witness ==
    /\ pc = "finally"
    /\ outcome.exit = "RetryExhausted"
    /\ Len(slept) = max_retries
    /\ Len(slept) > 1
    /\ slept[Len(slept)] = 2 * slept[Len(slept) - 1]

\* C30: when the filtered page is empty (the source returned nothing, or the
\* filter kept nothing) the loop leaves as Exhausted, and that step writes no
\* page file and changes neither the cursor, the page count, the item count
\* nor the progress tracker.
C30_EmptyPageStops ==
    [][(/\ pc = "filter" /\ pc' # pc /\ hist' = hist
        /\ ~FilterRaises(messages)
        /\ FilterMessagesByDate(messages) = <<>>)
       => /\ pc' = "finally"
          /\ outcome'.exit = "Exhausted" /\ outcome'.exc = "none"
          /\ pageFiles' = pageFiles
          /\ written' = written
          /\ oldest_message_id' = oldest_message_id
          /\ batch_count' = batch_count
          /\ total_messages' = total_messages
          /\ progress' = progress]_vars

\* A page the source returned with items, all of them filtered out, after a
\* page that was written.
C30_Witness ==
    /\ pc = "finally"
    /\ outcome.exit = "Exhausted"
    /\ messages # <<>>
    /\ ~NoFilter
    /\ FilterMessagesByDate(messages) = <<>>
    /\ batch_count > 0

\* C31: the source returning items older than the cursor asked for, newest
\* first, each persisted page leaves the cursor strictly older than the cursor
\* its page was requested with and than the cursor the run started from, in a
\* first run and in a resumed one; no fetch_all is answered twice for the same
\* cursor, and with no fault no message is in two page files.
C31_CursorMovesOlder ==
    /\ pc \in {"count", "save", "saving", "sleep"} =>
           /\ oldest_message_id # None
           /\ lastArgs.before # None => oldest_message_id < lastArgs.before
           /\ start.oldest # None => oldest_message_id < start.oldest
    /\ (pc \in LoopPcs /\ start.oldest # None) =>
           (oldest_message_id # None /\ oldest_message_id <= start.oldest)
    /\ ~written.twice
    /\ hist.faults = 0 => \A id \in SourceIds : Cardinality(Copies(id)) <= 1

\* A page persisted by a run resumed after a crash, from the checkpoint's cursor.
C31_Witness ==
    /\ pc = "sleep"
    /\ hist.crashed
    /\ start.oldest # None
    /\ lastArgs.before = start.oldest
    /\ oldest_message_id < start.oldest

\* C32: once a page is persisted the cursor is the id of the last item of the
\* page file just written, which holds the filtered page and not the page the
\* source returned, and the checkpoint saved for that page records this cursor.
LastPageFile == pageFiles[batch_count].items

C32_CursorFromFilteredPage ==
    /\ pc \in {"count", "save", "saving", "sleep"} =>
           /\ LastPageFile = FilterMessagesByDate(SourcePage(lastArgs.before, lastArgs.limit))
           /\ oldest_message_id = LastPageFile[Len(LastPageFile)]
    /\ pc = "sleep" =>
           /\ JobCheckpoint(ckptFile)
           /\ ckptFile.oldest_message_id = LastPageFile[Len(LastPageFile)]

\* A page whose last item the filter dropped: the cursor is the last item kept.
C32_Witness ==
    /\ pc = "sleep"
    /\ LET raw == SourcePage(lastArgs.before, lastArgs.limit) IN
           /\ raw[Len(raw)] # LastPageFile[Len(LastPageFile)]
           /\ oldest_message_id = LastPageFile[Len(LastPageFile)]
           /\ oldest_message_id > raw[Len(raw)]
    /\ ckptFile.oldest_message_id = oldest_message_id

\* C33: when fetch_all returns Exhausted, no fault having occurred, every
\* message of the channel older than the cursor the run started from that has a
\* time within the date range (every message when no range is set) is in a
\* page file, also when a page the source returned was filtered out whole.
OlderThanStart(id) == start.oldest = None \/ id < start.oldest

C33_ExhaustedMeansComplete ==
    (Returned /\ outcome.exit = "Exhausted" /\ hist.faults = 0) =>
        \A id \in SourceIds :
            (OlderThanStart(id) /\ (NoFilter \/ KeepMessage(id))) => Copies(id) # {}

\* C34: whenever fetch_all is left, by a return or an exception, after a break,
\* an interrupt or a failed page write, the item count in memory and in the
\* checkpoint is the starting one plus the items of the page files this call
\* wrote, and the page count the starting one plus the number of those files.
C34_CountsMatchFiles ==
    pc \in {"returned", "raised"} =>
        /\ total_messages = start.total + written.items
        /\ batch_count = start.batches + written.files
        /\ JobCheckpoint(ckptFile)
        /\ ckptFile.total_messages = start.total + written.items
        /\ ckptFile.batch_count = start.batches + written.files

\* C35: when a page fetch gives up after its last retry the breaker is open;
\* a first attempt of a later page fetch on that fetcher reaches the source only
\* when more than reset_timeout has passed since the last failure, and a
\* fetch_all refused by the open breaker has called the source not once.
C35_ExhaustionOpensBreaker ==
    /\ (pc \in {"finally", "finally_saving", "returned"}
            /\ outcome.exit = "RetryExhausted")
       => (cb.is_open /\ cb.has_failure_time /\ cb.failures > max_retries)
    /\ (pc = "call" /\ retry_count = 0 /\ cb.failures > max_retries)
       => cb.since_failure > ResetTimeout
    /\ (pc \in {"finally", "finally_saving", "returned"}
            /\ outcome.exit = "CircuitOpen")
       => (lastArgs = NoArgs /\ cb.is_open)

\* fetch_all called again, reset_timeout exactly after the fetch that gave up:
\* refused without a call.
C35_Witness ==
    /\ pc = "returned"
    /\ outcome.exit = "CircuitOpen"
    /\ max_retries > 1
    /\ cb.failures = max_retries + 1
    /\ cb.since_failure = ResetTimeout
    /\ lastArgs = NoArgs

\* C36: fetch_all ends as Stalled only from the stall check at the top of the
\* loop, and only when more than stall_timeout has passed since this fetcher
\* last completed a page file, or since it was built if it completed none.
C36_StalledOnlyWhenIdle ==
    (pc \in {"finally", "finally_saving", "returned"} /\ outcome.exit = "Stalled")
    => since_page > StallTimeout

\* Messages of the channel older than the cursor fetch_all started from, and
\* the non-empty pages they make.
ItemsRemaining == IF start.oldest = None THEN Len(timestamps) ELSE start.oldest - 1

PagesRemaining ==
    LET size == Min(Limit, PageSize) IN (ItemsRemaining + size - 1) \div size

InFetchAll == pc \in LoopPcs \cup {"finally", "finally_saving", "returned", "raised"}

\* C37 as claimed: every fetch_all that is entered is left, whatever calls of
\* the source fail, after at most one page fetch more than there were
\* non-empty pages older than its starting cursor.
C37_Original ==
    /\ [](InFetchAll => written.fetches <= PagesRemaining + 1)
    /\ (pc = "entered") ~> (pc \in {"returned", "raised"})

\* C37 as amended: every fetch_all that is entered is left, whatever calls of
\* the source fail, after at most one page fetch more than there were messages
\* older than its starting cursor, and without date filter after at most one
\* more than there were non-empty pages of them.
C37_Terminates ==
    /\ [](InFetchAll =>
            /\ written.fetches <= ItemsRemaining + 1
            /\ NoFilter => written.fetches <= PagesRemaining + 1)
    /\ (pc = "entered") ~> (pc \in {"returned", "raised"})

\* A run under a date filter that took more page fetches than pages remained,
\* one of them after a failed call, and ended Exhausted.
C37_Witness ==
    /\ pc = "returned"
    /\ outcome.exit = "Exhausted"
    /\ written.fetches > PagesRemaining + 1
    /\ written.fetches <= ItemsRemaining + 1
    /\ cb.failures = 0

\* C38: whatever methods have been called on a breaker, it has no last-failure
\* time exactly when its failure count is 0, and an open breaker has one: the
\* time can_execute compares with reset_timeout is always there.
C38_FailureTimeDefined ==
    /\ ~cb.has_failure_time <=> cb.failures = 0
    /\ cb.is_open => cb.has_failure_time

\* The first failure recorded on a breaker of threshold 1 opens it and stamps it.
C38_Witness ==
    /\ calls.op = "record_failure"
    /\ calls.before.failures = 0 /\ ~calls.before.has_failure_time
    /\ cb.max_failures = 1
    /\ cb.is_open /\ cb.has_failure_time /\ cb.failures = 1

====
